---- MODULE Spec2Model ----
(***************************************************************************)
(* Model of app/lib/avatar-scene-template.cpp: the process-wide SceneState *)
(* g_scene and the eight extern "C" entry points that mutate it.  The      *)
(* LIT-LAND engine objects (device, scene, loader, animator, registry) are *)
(* opaque collaborators: the model records which calls each entry point   *)
(* issues to them and the few facts about them the entry points rely on.   *)
(* Every entry point is one action; the host runs them one at a time.      *)
(***************************************************************************)
EXTENDS Integers, Sequences, FiniteSets, TLC

VARIABLES
  graphicsDevice,         \* g_scene.graphicsDevice (unique_ptr)
  scene,                  \* g_scene.scene
  modelLoader,            \* g_scene.modelLoader
  animator,               \* g_scene.animator
  registry,               \* g_scene.registry
  avatarEntity,           \* g_scene.avatarEntity
  cameraPosition,         \* g_scene.cameraPosition (tenths)
  cameraTarget,           \* g_scene.cameraTarget (tenths)
  cameraFOV,              \* g_scene.cameraFOV
  currentAnimationState,  \* g_scene.currentAnimationState
  canvasWidth,            \* g_scene.canvasWidth
  canvasHeight,           \* g_scene.canvasHeight
  lastCall,               \* the entry point the host called last, with its arguments
  calls,                  \* collaborator calls issued by that entry point, in order
  logs,                   \* console lines written by that entry point, in order
  ret,                    \* what that entry point returned: <<>> for void, else <<value>>
  faulted,                \* absent handles dereferenced by that entry point
  crashed                 \* the module trapped; the host can call nothing more

g_scene == <<graphicsDevice, scene, modelLoader, animator, registry, avatarEntity,
             cameraPosition, cameraTarget, cameraFOV, currentAnimationState,
             canvasWidth, canvasHeight>>

vars == <<graphicsDevice, scene, modelLoader, animator, registry, avatarEntity,
          cameraPosition, cameraTarget, cameraFOV, currentAnimationState,
          canvasWidth, canvasHeight, lastCall, calls, logs, ret, faulted, crashed>>

----------------------------------------------------------------------------
(* Bounds and input sets *)

\* entities one registry may hold before loadAvatarModel is no longer called
MaxEntities == 3

\* state names the host passes to setAnimationState
StateNames == {"idle", "listening", "speaking", "bogus"}

\* widths and heights the host passes to setCanvasSize
Widths == {-1, 0, 1920}
Heights == {-5, 0, 1080}

\* what loadFromMemory can return: no model, a model with or without skeleton
Models == {"null", "skinned", "static"}

\* entity values a create() through an empty registry pointer can yield
GarbageEntities == {0, 1}

\* frame rates a device can report
FrameRates == {30, 60}

\* where initScene can fail: createGraphicsDevice returns null, or one of the
\* make_unique calls throws; "none" is the successful run
InitFailures == {"none", "graphicsDevice", "scene", "modelLoader", "animator", "registry"}

----------------------------------------------------------------------------
(* Handles *)

\* an empty unique_ptr
NULL == [present |-> FALSE]

HandleNames == <<"graphicsDevice", "scene", "modelLoader", "animator", "registry">>

\* identities a graphics device can have; three suffice because a new device
\* only has to differ from the devices a surviving scene and loader were built from
DeviceIds == 1..3

Call(obj, fn, args) == [obj |-> obj, fn |-> fn, args |-> args]

Info(msg) == [level |-> "info", msg |-> msg]

Error(msg) == [level |-> "error", msg |-> msg]

\* the animation states setAnimationState compares against
KnownStates == {"idle", "listening", "speaking"}

----------------------------------------------------------------------------
(* Collaborator objects as the entry points see them *)

\* the object createGraphicsDevice returns on success
Device(id) == [present |-> TRUE, id |-> id]

\* litland::Scene(device): remembers the device it was built from; no camera,
\* no ambient light and no entities yet
NewScene(dev) ==
  [present |-> TRUE, dev |-> dev, ambient |-> FALSE, aspect |-> <<0, 0>>,
   camera |-> <<>>, entities |-> {}]

\* litland::GltfLoader(device)
NewLoader(dev) == [present |-> TRUE, dev |-> dev]

\* litland::Animator(): nothing playing, no skeleton bound
NewAnimator == [present |-> TRUE, speed |-> 0, clip |-> "", loop |-> FALSE, skeleton |-> FALSE]

\* litland::ECS::Registry(): no entities; create() hands out 1, 2, 3, ...
NewRegistry == [present |-> TRUE, count |-> 0]

\* the identity of the device an initScene failing at step k creates: one that
\* no object surviving the call was built from (a scene survives when the
\* call fails before replacing it, likewise the loader)
FreshDevice(k) ==
  CHOOSE d \in DeviceIds :
    /\ ~(k <= 2 /\ scene.present /\ scene.dev = d)
    /\ ~(k <= 3 /\ modelLoader.present /\ modelLoader.dev = d)
    /\ \A c \in DeviceIds :
         (/\ ~(k <= 2 /\ scene.present /\ scene.dev = c)
          /\ ~(k <= 3 /\ modelLoader.present /\ modelLoader.dev = c)) => d <= c

\* variant: the aspect ratio is height / width
CameraArgs_InvertedAspect(w, h) ==
  <<cameraPosition, cameraTarget, <<0, 10, 0>>, cameraFOV, <<h, w>>, 1, 1000>>

\* the argument list of scene->setCamera for a canvas of w by h
CameraArgs(w, h) == <<cameraPosition, cameraTarget, <<0, 10, 0>>, cameraFOV, <<w, h>>, 1, 1000>>

SetCamera(s, w, h) == [s EXCEPT !.aspect = <<w, h>>, !.camera = CameraArgs(w, h)]

----------------------------------------------------------------------------
(* Animation state machine helpers (speeds in tenths) *)

setupIdleAnimation(a) ==
  IF ~a.present THEN [animator |-> a, calls |-> <<>>]
  ELSE [animator |-> [a EXCEPT !.speed = 3, !.clip = "Armature|ArmatureAction", !.loop = TRUE],
        calls |-> << Call("animator", "setAnimationSpeed", <<3>>),
                     Call("animator", "playAnimation", <<"Armature|ArmatureAction", TRUE>>) >>]

\* variant: the head-tilt clip is started looping, like the other two
setupListeningAnimation_Looping(a) ==
  IF ~a.present THEN [animator |-> a, calls |-> <<>>]
  ELSE [animator |-> [a EXCEPT !.speed = 5, !.clip = "HeadTilt", !.loop = TRUE],
        calls |-> << Call("animator", "setAnimationSpeed", <<5>>),
                     Call("animator", "playAnimation", <<"HeadTilt", TRUE>>) >>]

setupListeningAnimation(a) ==
  IF ~a.present THEN [animator |-> a, calls |-> <<>>]
  ELSE [animator |-> [a EXCEPT !.speed = 5, !.clip = "HeadTilt", !.loop = FALSE],
        calls |-> << Call("animator", "setAnimationSpeed", <<5>>),
                     Call("animator", "playAnimation", <<"HeadTilt", FALSE>>) >>]

\* variant: the early return on a missing animator is left out
setupSpeakingAnimation_NoAnimatorCheck(a) ==
  [animator |-> IF a.present
                  THEN [a EXCEPT !.speed = 10, !.clip = "Talking", !.loop = TRUE] ELSE a,
   calls |-> << Call("animator", "setAnimationSpeed", <<10>>),
                Call("animator", "playAnimation", <<"Talking", TRUE>>) >>]

setupSpeakingAnimation(a) ==
  IF ~a.present THEN [animator |-> a, calls |-> <<>>]
  ELSE [animator |-> [a EXCEPT !.speed = 10, !.clip = "Talking", !.loop = TRUE],
        calls |-> << Call("animator", "setAnimationSpeed", <<10>>),
                     Call("animator", "playAnimation", <<"Talking", TRUE>>) >>]

\* variant: the name is stored only in the branches that recognise it, and the
\* "listening" branch forgets to
StoredStateName_DropsListening(cur, stateName) ==
  IF stateName = "listening" THEN cur ELSE stateName

\* the value setAnimationState assigns to currentAnimationState (line 214)
StoredStateName(cur, stateName) == stateName

\* the if / else-if chain of setAnimationState (lines 216-224)
DispatchAnimation(stateName, a) ==
  IF stateName = "idle" THEN setupIdleAnimation(a) @@ [logs |-> <<>>]
  ELSE IF stateName = "listening" THEN setupListeningAnimation(a) @@ [logs |-> <<>>]
  ELSE IF stateName = "speaking" THEN setupSpeakingAnimation(a) @@ [logs |-> <<>>]
  ELSE [animator |-> a, calls |-> <<>>,
        logs |-> << Error("Unknown animation state: " \o stateName) >>]

----------------------------------------------------------------------------
Init ==
  /\ graphicsDevice = NULL
  /\ scene = NULL
  /\ modelLoader = NULL
  /\ animator = NULL
  /\ registry = NULL
  /\ avatarEntity = 0
  /\ cameraPosition = <<0, 17, 25>>
  /\ cameraTarget = <<0, 15, 0>>
  /\ cameraFOV = 500
  /\ currentAnimationState = "idle"
  /\ canvasWidth = 1024
  /\ canvasHeight = 768
  /\ lastCall = [op |-> "main", args |-> <<>>]
  /\ calls = <<>>
  /\ logs = << Info("LIT-LAND Avatar Engine starting...") >>
  /\ ret = <<0>>
  /\ faulted = {}
  /\ crashed = FALSE

\* extern "C" void setAnimationState(const char* stateName)
SetAnimationState(stateName) ==
  LET d == DispatchAnimation(stateName, animator) IN
  /\ ~crashed
  /\ currentAnimationState' = StoredStateName(currentAnimationState, stateName)
  /\ animator' = d.animator
  /\ calls' = d.calls
  /\ logs' = d.logs \o << Info("Animation state changed to: " \o stateName) >>
  /\ lastCall' = [op |-> "setAnimationState", args |-> <<stateName>>]
  /\ faulted' = {}
  /\ UNCHANGED <<graphicsDevice, scene, modelLoader, registry, avatarEntity,
                 cameraPosition, cameraTarget, cameraFOV, canvasWidth, canvasHeight, crashed>>
  /\ ret' = <<>>

\* extern "C" const char* getAnimationState()
GetAnimationState ==
  /\ ~crashed
  /\ ret' = <<currentAnimationState>>
  /\ lastCall' = [op |-> "getAnimationState", args |-> <<>>]
  /\ calls' = <<>>
  /\ logs' = <<>>
  /\ faulted' = {}
  /\ UNCHANGED <<g_scene, crashed>>

\* variant: the device is asked without the presence check
FrameRateResult_NoDeviceCheck(rate) == rate

\* the value getFrameRate returns (lines 300-303); rate is what the device reports
FrameRateResult(rate) == IF graphicsDevice.present THEN rate ELSE 0

\* extern "C" float getFrameRate(); rate is what the device reports
GetFrameRate(rate) ==
  /\ ~crashed
  /\ ret' = <<FrameRateResult(rate)>>
  /\ calls' = IF graphicsDevice.present
                THEN << Call("graphicsDevice", "getFrameRate", <<>>) >>
                ELSE <<>>
  /\ lastCall' = [op |-> "getFrameRate", args |-> <<>>]
  /\ logs' = <<>>
  /\ faulted' = {}
  /\ UNCHANGED <<g_scene, crashed>>

\* position of the failing step of initScene in creation order; 6 = no failure
FailStep(fail) ==
  CASE fail = "graphicsDevice" -> 1
    [] fail = "scene" -> 2
    [] fail = "modelLoader" -> 3
    [] fail = "animator" -> 4
    [] fail = "registry" -> 5
    [] OTHER -> 6

\* what() of the exception that ends a failed initScene
InitFailureMessage(fail) ==
  IF fail = "graphicsDevice" THEN "Failed to create graphics device" ELSE "std::bad_alloc"

\* the constructor / factory calls of initScene, in source order (lines 117-134)
InitCreateCalls(dev) ==
  << Call("litland", "createGraphicsDevice", <<"WebGPU">>),
     Call("scene", "Scene", <<dev>>),
     Call("modelLoader", "GltfLoader", <<dev>>),
     Call("animator", "Animator", <<>>),
     Call("registry", "Registry", <<>>) >>

\* lighting and camera set-up of initScene (lines 137-151); 1 is the light entity
InitSetupCalls(w, h) ==
  << Call("registry", "create", <<>>),
     Call("registry", "emplace<Transform>", <<1, <<20, 30, 20>>, <<0, 0, 0>>, <<10, 10, 10>> >>),
     Call("registry", "emplace<DirectionalLight>", <<1, <<10, 10, 10>>, 10>>),
     Call("scene", "setAmbientLight", << <<5, 5, 5>>, 5>>),
     Call("scene", "setCamera", CameraArgs(w, h)) >>

\* extern "C" void initScene(); fail names the step that fails, if any
InitScene(fail) ==
  LET k == FailStep(fail)
      dev == FreshDevice(k)
      idle == setupIdleAnimation(NewAnimator)
  IN
  /\ ~crashed
  /\ graphicsDevice' = IF k > 1 THEN Device(dev) ELSE NULL
  /\ scene' = IF k = 6 THEN SetCamera([NewScene(dev) EXCEPT !.ambient = TRUE],
                                       canvasWidth, canvasHeight)
              ELSE IF k > 2 THEN NewScene(dev)
              ELSE scene
  /\ modelLoader' = IF k > 3 THEN NewLoader(dev) ELSE modelLoader
  /\ animator' = IF k = 6 THEN idle.animator
                 ELSE IF k > 4 THEN NewAnimator
                 ELSE animator
  /\ registry' = IF k = 6 THEN [NewRegistry EXCEPT !.count = 1] ELSE registry
  /\ calls' = IF k = 6
                THEN InitCreateCalls(dev) \o InitSetupCalls(canvasWidth, canvasHeight)
                     \o idle.calls
                ELSE SubSeq(InitCreateCalls(dev), 1, k)
  /\ logs' = << Info("Initializing avatar scene...") >> \o
             (IF k = 6 THEN << Info("Avatar scene initialized successfully") >>
              ELSE << Error("Failed to initialize scene: " \o InitFailureMessage(fail)) >>)
  /\ lastCall' = [op |-> "initScene", args |-> <<fail>>]
  /\ faulted' = {}
  /\ UNCHANGED <<avatarEntity, cameraPosition, cameraTarget, cameraFOV,
                 currentAnimationState, canvasWidth, canvasHeight, crashed>>
  /\ ret' = <<>>

\* the handles loadAvatarModel requires before it parses (lines 171-173)
LoadPrecondition == modelLoader.present

\* the handles loadAvatarModel dereferences after a successful parse
\* (lines 183-200) although they are absent
LoadNullDerefs(model) ==
  {n \in {"registry", "animator", "scene"} :
     \/ n = "registry" /\ ~registry.present
     \/ n = "animator" /\ model = "skinned" /\ ~animator.present
     \/ n = "scene" /\ ~scene.present}

\* the first of them in statement order: registry (183), animator (195), scene (199)
FirstNullDeref(model) ==
  IF "registry" \in LoadNullDerefs(model) THEN "registry"
  ELSE IF "animator" \in LoadNullDerefs(model) THEN "animator"
  ELSE "scene"

\* collaborator calls of loadAvatarModel after a successful parse, for entity e
LoadEntityCalls(model, e) ==
  << Call("registry", "create", <<>>),
     Call("registry", "emplace<Transform>", <<e, <<0, 0, 0>>, <<0, 0, 0>>, <<10, 10, 10>> >>),
     Call("registry", "emplace<RenderMesh>", <<e, model>>) >> \o
  (IF model = "skinned" THEN << Call("animator", "bindSkeleton", <<model>>) >> ELSE <<>>) \o
  << Call("registry", "get<Transform>", <<e>>),
     Call("scene", "addEntity", <<e>>) >>

\* variant: the result of the loader is used without the null test
ParseFailed_NeverTested(model) == FALSE

\* the test on the loader's result (line 178)
ParseFailed(model) == model = "null"

\* variant: an avatar entity that already exists is kept and the created one dropped
NewAvatarEntity_KeepsFirst(prev, created) == IF prev # 0 THEN prev ELSE created

\* the value loadAvatarModel assigns to avatarEntity (line 183)
NewAvatarEntity(prev, created) == created

\* extern "C" void loadAvatarModel(uint8_t* glbBuffer, size_t bufferSize);
\* model is what the loader makes of the buffer
LoadAvatarModel(model) ==
  /\ ~crashed
  /\ registry.present => registry.count < MaxEntities
  /\ lastCall' = [op |-> "loadAvatarModel", args |-> <<model>>]
  /\ UNCHANGED <<graphicsDevice, modelLoader, cameraPosition, cameraTarget, cameraFOV,
                 currentAnimationState, canvasWidth, canvasHeight>>
  /\ ret' = <<>>
  /\ IF ~LoadPrecondition THEN
       /\ calls' = <<>>
       /\ logs' = << Info("Loading avatar model..."),
                     Error("Failed to load avatar model: Model loader not initialized") >>
       /\ faulted' = {}
       /\ UNCHANGED <<scene, animator, registry, avatarEntity, crashed>>
     ELSE IF ParseFailed(model) THEN
       /\ calls' = << Call("modelLoader", "loadFromMemory", <<>>) >>
       /\ logs' = << Info("Loading avatar model..."),
                     Error("Failed to load avatar model: Failed to parse GLTF model") >>
       /\ faulted' = {}
       /\ UNCHANGED <<scene, animator, registry, avatarEntity, crashed>>
     ELSE IF LoadNullDerefs(model) # {} THEN
       \* a member call through an empty unique_ptr: the module traps, or it
       \* runs on with a garbage entity and touches the handles that do exist
       \/ /\ crashed' = TRUE
          /\ faulted' = {FirstNullDeref(model)}
          /\ calls' = << Call("modelLoader", "loadFromMemory", <<>>) >>
          /\ logs' = << Info("Loading avatar model...") >>
          /\ UNCHANGED <<scene, animator, registry, avatarEntity>>
       \/ \E e \in GarbageEntities :
          /\ crashed' = FALSE
          /\ faulted' = LoadNullDerefs(model)
          /\ avatarEntity' = NewAvatarEntity(avatarEntity, e)
          /\ registry' = IF registry.present THEN [registry EXCEPT !.count = @ + 1] ELSE registry
          /\ animator' = IF animator.present /\ model = "skinned"
                           THEN [animator EXCEPT !.skeleton = TRUE] ELSE animator
          /\ scene' = IF scene.present THEN [scene EXCEPT !.entities = @ \cup {e}] ELSE scene
          /\ calls' = << Call("modelLoader", "loadFromMemory", <<>>) >> \o LoadEntityCalls(model, e)
          /\ logs' = << Info("Loading avatar model..."), Info("Avatar model loaded successfully") >>
     ELSE
       LET e == registry.count + 1 IN
       /\ registry' = [registry EXCEPT !.count = e]
       /\ avatarEntity' = NewAvatarEntity(avatarEntity, e)
       /\ animator' = IF model = "skinned" THEN [animator EXCEPT !.skeleton = TRUE] ELSE animator
       /\ scene' = [scene EXCEPT !.entities = @ \cup {e}]
       /\ calls' = << Call("modelLoader", "loadFromMemory", <<>>) >> \o LoadEntityCalls(model, e)
       /\ logs' = << Info("Loading avatar model..."), Info("Avatar model loaded successfully") >>
       /\ faulted' = {}
       /\ UNCHANGED crashed

\* variant: the animator is updated without the presence check
UpdateFrameCalls_NoAnimatorCheck ==
  << Call("animator", "update", <<1>>) >> \o
  (IF scene.present THEN << Call("scene", "update", <<1>>) >> ELSE <<>>) \o
  (IF graphicsDevice.present /\ scene.present
     THEN << Call("graphicsDevice", "beginFrame", <<>>),
             Call("scene", "render", <<graphicsDevice.id, scene.aspect>>),
             Call("graphicsDevice", "endFrame", <<>>),
             Call("graphicsDevice", "present", <<>>) >>
     ELSE <<>>)

\* variant: the render cycle needs only the device, and present() comes
\* before endFrame()
UpdateFrameCalls_RenderWithoutScene ==
  (IF animator.present THEN << Call("animator", "update", <<1>>) >> ELSE <<>>) \o
  (IF scene.present THEN << Call("scene", "update", <<1>>) >> ELSE <<>>) \o
  (IF graphicsDevice.present
     THEN << Call("graphicsDevice", "beginFrame", <<>>),
             Call("scene", "render", <<graphicsDevice.id, <<0, 0>> >>),
             Call("graphicsDevice", "present", <<>>),
             Call("graphicsDevice", "endFrame", <<>>) >>
     ELSE <<>>)

\* collaborator calls of one updateFrame (lines 239-254); dt in 1/60 s
UpdateFrameCalls ==
  (IF animator.present THEN << Call("animator", "update", <<1>>) >> ELSE <<>>) \o
  (IF scene.present THEN << Call("scene", "update", <<1>>) >> ELSE <<>>) \o
  (IF graphicsDevice.present /\ scene.present
     THEN << Call("graphicsDevice", "beginFrame", <<>>),
             Call("scene", "render", <<graphicsDevice.id, scene.aspect>>),
             Call("graphicsDevice", "endFrame", <<>>),
             Call("graphicsDevice", "present", <<>>) >>
     ELSE <<>>)

\* extern "C" void updateFrame()
UpdateFrame ==
  /\ ~crashed
  /\ calls' = UpdateFrameCalls
  /\ logs' = <<>>
  /\ lastCall' = [op |-> "updateFrame", args |-> <<>>]
  /\ faulted' = {}
  /\ ret' = <<>>
  /\ UNCHANGED <<g_scene, crashed>>

\* variant: && in place of ||
RejectsSize_BothNonPositive(width, height) == width <= 0 /\ height <= 0

\* the early return of setCanvasSize (line 265)
RejectsSize(width, height) == width <= 0 \/ height <= 0

\* extern "C" void setCanvasSize(int width, int height)
SetCanvasSize(width, height) ==
  /\ ~crashed
  /\ lastCall' = [op |-> "setCanvasSize", args |-> <<width, height>>]
  /\ logs' = <<>>
  /\ faulted' = {}
  /\ UNCHANGED <<graphicsDevice, modelLoader, animator, registry, avatarEntity,
                 cameraPosition, cameraTarget, cameraFOV, currentAnimationState, crashed>>
  /\ ret' = <<>>
  /\ IF RejectsSize(width, height) THEN
       /\ calls' = <<>>
       /\ UNCHANGED <<canvasWidth, canvasHeight, scene>>
     ELSE
       /\ canvasWidth' = width
       /\ canvasHeight' = height
       /\ scene' = IF scene.present THEN SetCamera(scene, width, height) ELSE scene
       /\ calls' =
            (IF graphicsDevice.present
               THEN << Call("graphicsDevice", "setViewport", <<0, 0, width, height>>) >>
               ELSE <<>>) \o
            (IF scene.present
               THEN << Call("scene", "setCamera", CameraArgs(width, height)) >>
               ELSE <<>>)

\* variant: the handles are reset in declaration order, device first
ReleaseOrder_DeclarationOrder ==
  <<"graphicsDevice", "scene", "modelLoader", "animator", "registry">>

\* the order in which cleanup resets the unique_ptrs (lines 314-318)
ReleaseOrder == <<"registry", "animator", "modelLoader", "scene", "graphicsDevice">>

\* the handle of a given name
Handle(name) ==
  CASE name = "graphicsDevice" -> graphicsDevice
    [] name = "scene" -> scene
    [] name = "modelLoader" -> modelLoader
    [] name = "animator" -> animator
    [] name = "registry" -> registry

\* variant: the object is deleted without looking at the pointer
ResetDestroys_Unconditional(name) == TRUE

\* unique_ptr::reset() destroys the object only when the pointer holds one
ResetDestroys(name) == Handle(name).present

\* the destructor runs of one cleanup, in order
CleanupCalls ==
  LET IsHeld(name) == ResetDestroys(name)
      F[i \in 0..5] ==
        IF i = 0 THEN <<>>
        ELSE IF IsHeld(ReleaseOrder[i])
          THEN Append(F[i - 1], Call(ReleaseOrder[i], "delete", <<>>))
          ELSE F[i - 1]
  IN F[5]

\* extern "C" void cleanup()
Cleanup ==
  /\ ~crashed
  /\ calls' = CleanupCalls
  /\ registry' = NULL
  /\ animator' = NULL
  /\ modelLoader' = NULL
  /\ scene' = NULL
  /\ graphicsDevice' = NULL
  /\ logs' = << Info("Cleaning up avatar scene..."), Info("Cleanup complete") >>
  /\ lastCall' = [op |-> "cleanup", args |-> <<>>]
  /\ faulted' = {}
  /\ UNCHANGED <<avatarEntity, cameraPosition, cameraTarget, cameraFOV,
                 currentAnimationState, canvasWidth, canvasHeight, crashed>>
  /\ ret' = <<>>

Next ==
  \/ \E fail \in InitFailures : InitScene(fail)
  \/ \E model \in Models : LoadAvatarModel(model)
  \/ \E stateName \in StateNames : SetAnimationState(stateName)
  \/ UpdateFrame
  \/ \E width \in Widths, height \in Heights : SetCanvasSize(width, height)
  \/ GetAnimationState
  \/ \E rate \in FrameRates : GetFrameRate(rate)
  \/ Cleanup

Spec == Init /\ [][Next]_vars

----------------------------------------------------------------------------
(* Properties *)

AllPresent ==
  /\ graphicsDevice.present /\ scene.present /\ modelLoader.present
  /\ animator.present /\ registry.present

AllAbsent ==
  /\ ~graphicsDevice.present /\ ~scene.present /\ ~modelLoader.present
  /\ ~animator.present /\ ~registry.present

HasError(log) == \E i \in DOMAIN log : log[i].level = "error"

\* C1: setAnimationState(n) with n in {idle, listening, speaking}, directly
\* followed by getAnimationState(), makes the getter return exactly n.
C1_SetThenGetReturnsName ==
  [][ (/\ lastCall.op = "setAnimationState"
       /\ lastCall.args[1] \in {"idle", "listening", "speaking"}
       /\ lastCall'.op = "getAnimationState")
      => ret' = <<lastCall.args[1]>> ]_vars

\* a getAnimationState that returned a name only a setAnimationState can have stored
C1_Witness ==
  /\ lastCall.op = "getAnimationState"
  /\ ret = <<"listening">>

\* C2: setAnimationState with a name outside {idle, listening, speaking}
\* leaves the stored animation state as it was; the name is not stored.
C2_UnknownNameNotStored ==
  [][ (/\ lastCall'.op = "setAnimationState"
       /\ lastCall'.args[1] \notin {"idle", "listening", "speaking"})
      => /\ currentAnimationState' = currentAnimationState
         /\ currentAnimationState' # lastCall'.args[1] ]_vars

\* C3: currentAnimationState is always one of idle, listening, speaking.
C3_StateAlwaysKnown == currentAnimationState \in {"idle", "listening", "speaking"}

\* C4: no entry point dereferences an absent handle or crashes the module.
C4_NoAbsentHandleUse == faulted = {} /\ ~crashed

\* C5: loadAvatarModel with modelLoader absent or registry absent logs an error
\* and changes nothing: no parse, no entity, avatarEntity kept, no animator or
\* scene call.
C5_LoadNeedsLoaderAndRegistry ==
  [][ (/\ lastCall'.op = "loadAvatarModel"
       /\ (~modelLoader.present \/ ~registry.present))
      => /\ HasError(logs')
         /\ calls' = <<>>
         /\ g_scene' = g_scene
         /\ faulted' = {} /\ ~crashed' ]_vars

\* C6: after every entry-point call the five handles are all present or all absent.
C6_HandlesAllOrNothing == AllPresent \/ AllAbsent

\* rank of a handle in the order registry, animator, modelLoader, scene, device
C7_Rank(name) ==
  CASE name = "registry" -> 1
    [] name = "animator" -> 2
    [] name = "modelLoader" -> 3
    [] name = "scene" -> 4
    [] name = "graphicsDevice" -> 5

\* C7: cleanup destroys exactly the handles that were held, in the order
\* registry, animator, modelLoader, scene, device, and leaves all five absent.
C7_CleanupReleaseOrder ==
  [][ lastCall'.op = "cleanup"
      => /\ AllAbsent'
         /\ \A i \in DOMAIN calls' : calls'[i].fn = "delete"
         /\ {calls'[i].obj : i \in DOMAIN calls'} =
              {HandleNames[i] : i \in {j \in 1..5 : Handle(HandleNames[j]).present}}
         /\ \A i, j \in DOMAIN calls' :
              i < j => C7_Rank(calls'[i].obj) < C7_Rank(calls'[j].obj) ]_vars

\* a cleanup that destroyed all five objects
C7_Witness ==
  /\ lastCall.op = "cleanup"
  /\ Len(calls) = 5
  /\ AllAbsent

\* C8: cleanup with all handles already absent destroys nothing, logs no error
\* and leaves the scene state as it was.
C8_CleanupIdempotent ==
  [][ (AllAbsent /\ lastCall'.op = "cleanup")
      => /\ calls' = <<>>
         /\ ~HasError(logs')
         /\ g_scene' = g_scene ]_vars

\* a cleanup directly after a cleanup cannot be told apart in one state, so the
\* witness is a cleanup that found nothing to destroy
C8_Witness ==
  /\ lastCall.op = "cleanup"
  /\ calls = <<>>
  /\ Len(logs) = 2

\* C9: updateFrame with all handles absent issues no collaborator call, logs
\* no error and leaves the scene state as it was.
C9_UpdateFrameBeforeInit ==
  [][ (AllAbsent /\ lastCall'.op = "updateFrame")
      => /\ calls' = <<>>
         /\ ~HasError(logs')
         /\ g_scene' = g_scene ]_vars

\* an updateFrame that ran with no handle at all
C9_Witness ==
  /\ lastCall.op = "updateFrame"
  /\ AllAbsent
  /\ calls = <<>>

\* C10: setCanvasSize with width <= 0 or height <= 0 keeps the stored
\* dimensions, issues no call and logs nothing; so both dimensions stay positive.
C10_NonPositiveSizeIgnored ==
  /\ [](canvasWidth > 0 /\ canvasHeight > 0)
  /\ [][ (/\ lastCall'.op = "setCanvasSize"
          /\ (lastCall'.args[1] <= 0 \/ lastCall'.args[2] <= 0))
         => /\ canvasWidth' = canvasWidth /\ canvasHeight' = canvasHeight
            /\ calls' = <<>> /\ logs' = <<>>
            /\ g_scene' = g_scene ]_vars

\* a rejected resize that came after an accepted one and kept its dimensions
C10_Witness ==
  /\ lastCall.op = "setCanvasSize"
  /\ lastCall.args[1] <= 0
  /\ canvasWidth = 1920 /\ canvasHeight = 1080

\* C11: after every initScene that completes successfully the animation state
\* machine is in idle (getAnimationState() would return "idle"); a following
\* loadAvatarModel keeps the state, a following setAnimationState("speaking")
\* makes it "speaking".
C11_InitDrivesStateToIdle ==
  /\ [][ (lastCall'.op = "initScene" /\ lastCall'.args = <<"none">>)
         => currentAnimationState' = "idle" ]_vars
  /\ [][ (/\ lastCall.op = "initScene" /\ lastCall.args = <<"none">>
          /\ lastCall'.op = "loadAvatarModel")
         => currentAnimationState' = currentAnimationState ]_vars
  /\ [][ (/\ lastCall.op = "initScene" /\ lastCall.args = <<"none">>
          /\ lastCall'.op = "setAnimationState" /\ lastCall'.args = <<"speaking">>)
         => currentAnimationState' = "speaking" ]_vars

\* C12: setCanvasSize(width, height) with both arguments positive stores
\* exactly those dimensions, leaves cameraPosition, cameraTarget and cameraFOV
\* alone, sets the device viewport iff the device is present, re-sets the scene
\* camera iff the scene is present, with the same position, target and FOV,
\* aspect width / height, near 0.1 and far 100; an updateFrame that follows
\* renders with that aspect ratio.
C12_ResizeStoresAndReprojects ==
  /\ [][ (/\ lastCall'.op = "setCanvasSize"
          /\ lastCall'.args[1] > 0 /\ lastCall'.args[2] > 0)
         => LET w == lastCall'.args[1]
                h == lastCall'.args[2]
                viewport == {i \in DOMAIN calls' : calls'[i].fn = "setViewport"}
                camera == {i \in DOMAIN calls' : calls'[i].fn = "setCamera"}
            IN /\ canvasWidth' = w /\ canvasHeight' = h
               /\ UNCHANGED <<cameraPosition, cameraTarget, cameraFOV>>
               /\ Len(calls') = Cardinality(viewport) + Cardinality(camera)
               /\ Cardinality(viewport) = (IF graphicsDevice.present THEN 1 ELSE 0)
               /\ Cardinality(camera) = (IF scene.present THEN 1 ELSE 0)
               /\ \A i \in viewport : calls'[i].args = <<0, 0, w, h>>
               /\ \A i \in camera :
                    calls'[i].args = << <<0, 17, 25>>, <<0, 15, 0>>, <<0, 10, 0>>, 500,
                                        <<w, h>>, 1, 1000 >>
               /\ scene.present => scene'.aspect = <<w, h>>
               /\ logs' = <<>> ]_vars
  /\ [][ (/\ lastCall.op = "setCanvasSize"
          /\ lastCall.args[1] > 0 /\ lastCall.args[2] > 0
          /\ lastCall'.op = "updateFrame")
         => \A i \in DOMAIN calls' :
              calls'[i].fn = "render" => calls'[i].args[2] = <<lastCall.args[1], lastCall.args[2]>> ]_vars
  /\ [](/\ cameraPosition = <<0, 17, 25>> /\ cameraTarget = <<0, 15, 0>> /\ cameraFOV = 500)

\* an updateFrame that rendered the 1920:1080 projection set by a resize
C12_Witness ==
  /\ lastCall.op = "updateFrame"
  /\ \E i \in DOMAIN calls : calls[i].fn = "render" /\ calls[i].args[2] = <<1920, 1080>>
  /\ canvasWidth = 1920 /\ canvasHeight = 1080

\* C13: getFrameRate and getAnimationState never fail and never change the
\* scene state; getFrameRate returns 0.0 whenever the device is absent and a
\* rate reported by the device otherwise; getAnimationState returns the stored
\* currentAnimationState.
C13_ReadsArePure ==
  /\ [][ lastCall'.op = "getFrameRate"
         => /\ g_scene' = g_scene
            /\ ~crashed' /\ faulted' = {} /\ logs' = <<>>
            /\ ~graphicsDevice.present => (ret' = <<0>> /\ calls' = <<>>)
            /\ graphicsDevice.present =>
                 /\ Len(ret') = 1 /\ ret'[1] \in {30, 60}
                 /\ Len(calls') = 1
                 /\ calls'[1].obj = "graphicsDevice" /\ calls'[1].fn = "getFrameRate" ]_vars
  /\ [][ lastCall'.op = "getAnimationState"
         => /\ g_scene' = g_scene
            /\ ~crashed' /\ faulted' = {} /\ logs' = <<>> /\ calls' = <<>>
            /\ ret' = <<currentAnimationState>> ]_vars

\* a getFrameRate that found no device after a failed device creation had
\* left the other handles in place
C13_Witness ==
  /\ lastCall.op = "getFrameRate"
  /\ ~graphicsDevice.present /\ scene.present
  /\ ret = <<0>>

\* C14: one updateFrame issues animator.update iff the animator is present,
\* then scene.update iff the scene is present, then, iff device and scene are
\* both present, the complete cycle device.beginFrame, scene.render,
\* device.endFrame, device.present, in that order and nothing else.
C14_UpdateFrameCallOrder ==
  [][ lastCall'.op = "updateFrame"
      => [i \in DOMAIN calls' |-> <<calls'[i].obj, calls'[i].fn>>] =
           (IF animator.present THEN << <<"animator", "update">> >> ELSE <<>>) \o
           (IF scene.present THEN << <<"scene", "update">> >> ELSE <<>>) \o
           (IF graphicsDevice.present /\ scene.present
              THEN << <<"graphicsDevice", "beginFrame">>, <<"scene", "render">>,
                      <<"graphicsDevice", "endFrame">>, <<"graphicsDevice", "present">> >>
              ELSE <<>>) ]_vars

\* an updateFrame that ran all six calls
C14_Witness ==
  /\ lastCall.op = "updateFrame"
  /\ Len(calls) = 6
  /\ calls[3].fn = "beginFrame" /\ calls[6].fn = "present"

\* the playback configuration the specification gives a known state name:
\* speed (tenths), clip, looping
C15_Config(name) ==
  CASE name = "idle" -> <<3, "Armature|ArmatureAction", TRUE>>
    [] name = "listening" -> <<5, "HeadTilt", FALSE>>
    [] name = "speaking" -> <<10, "Talking", TRUE>>

\* C15: with the animator present, setAnimationState with a known name issues
\* exactly one setAnimationSpeed and then exactly one playAnimation, with the
\* speed, clip and looping flag of that name, also when the name is the
\* current state.
C15_KnownNameDispatchesConfig ==
  [][ (/\ animator.present
       /\ lastCall'.op = "setAnimationState"
       /\ lastCall'.args[1] \in {"idle", "listening", "speaking"})
      => LET cfg == C15_Config(lastCall'.args[1]) IN
         /\ Len(calls') = 2
         /\ calls'[1].obj = "animator" /\ calls'[1].fn = "setAnimationSpeed"
         /\ calls'[1].args = <<cfg[1]>>
         /\ calls'[2].obj = "animator" /\ calls'[2].fn = "playAnimation"
         /\ calls'[2].args = <<cfg[2], cfg[3]>>
         /\ animator'.speed = cfg[1] /\ animator'.clip = cfg[2] /\ animator'.loop = cfg[3] ]_vars

\* a setAnimationState("listening") that reached an animator
C15_Witness ==
  /\ lastCall.op = "setAnimationState"
  /\ lastCall.args = <<"listening">>
  /\ animator.present
  /\ Len(calls) = 2

\* C16: with the animator absent, setAnimationState with a known name stores
\* the name, issues no animator command and logs no error.
C16_KnownNameWithoutAnimator ==
  [][ (/\ ~animator.present
       /\ lastCall'.op = "setAnimationState"
       /\ lastCall'.args[1] \in {"idle", "listening", "speaking"})
      => /\ currentAnimationState' = lastCall'.args[1]
         /\ calls' = <<>>
         /\ ~HasError(logs')
         /\ animator' = animator ]_vars

\* a setAnimationState("speaking") made while there was no animator
C16_Witness ==
  /\ lastCall.op = "setAnimationState"
  /\ lastCall.args = <<"speaking">>
  /\ ~animator.present
  /\ currentAnimationState = "speaking"

\* C17: loadAvatarModel whose buffer the loader cannot parse logs an error and
\* does nothing else: no entity, avatarEntity kept, animator not re-bound,
\* nothing added to the scene, animation state and canvas size unchanged.
C17_ParseFailureHasNoEffect ==
  [][ (/\ lastCall'.op = "loadAvatarModel"
       /\ lastCall'.args = <<"null">>
       /\ modelLoader.present)
      => /\ HasError(logs')
         /\ g_scene' = g_scene
         /\ \A i \in DOMAIN calls' : calls'[i].obj = "modelLoader"
         /\ faulted' = {} /\ ~crashed' ]_vars

\* a failed parse that came after a successful load and kept its avatar
C17_Witness ==
  /\ lastCall.op = "loadAvatarModel"
  /\ lastCall.args = <<"null">>
  /\ Len(calls) = 1
  /\ HasError(logs)
  /\ registry.present /\ registry.count = 2 /\ avatarEntity = 2

\* C18: every successful loadAvatarModel (one that found the handles it uses)
\* creates exactly one new registry entity, makes it avatarEntity and adds it to the scene, and removes no
\* earlier entity; so a registry that has seen k loads since its initScene
\* holds the light and k avatars, and avatarEntity is the newest of them.
C18_LoadAddsOneEntity ==
  /\ [][ (/\ lastCall'.op = "loadAvatarModel"
          /\ ~HasError(logs')
          /\ faulted' = {} /\ ~crashed')
         => /\ registry'.count = registry.count + 1
            /\ avatarEntity' = registry'.count
            /\ avatarEntity' \notin scene.entities
            /\ scene'.entities = scene.entities \cup {avatarEntity'}
            /\ Len(SelectSeq(calls', LAMBDA c : c.fn = "create")) = 1
            /\ Len(SelectSeq(calls', LAMBDA c : c.fn = "addEntity")) = 1 ]_vars
  /\ []((registry.present /\ registry.count > 1) => avatarEntity = registry.count)

\* the state after two successful loads: light, first avatar, second avatar
C18_Witness ==
  /\ lastCall.op = "loadAvatarModel"
  /\ ~HasError(logs)
  /\ AllPresent
  /\ registry.count = 3 /\ avatarEntity = 3
  /\ scene.entities = {2, 3}

\* C19: whenever the animator is present, has been sent a playback
\* configuration, and currentAnimationState is a known state, the
\* configuration it received last is the one of currentAnimationState.
C19_AnimatorFollowsStoredState ==
  (/\ animator.present /\ animator.clip # ""
   /\ currentAnimationState \in {"idle", "listening", "speaking"})
    => <<animator.speed, animator.clip, animator.loop>> = C15_Config(currentAnimationState)

\* C20: a scene or model loader that is present was built from the device
\* that is present now.
C20_DeviceOutlivesDependents ==
  /\ scene.present => (graphicsDevice.present /\ graphicsDevice.id = scene.dev)
  /\ modelLoader.present => (graphicsDevice.present /\ graphicsDevice.id = modelLoader.dev)

====
